---- MODULE Spec2Model ----
(***************************************************************************)
(* Duplicate-file cleaner: clean_up.py (sequential, "v1") and              *)
(* cleanup_v2.py (process pool, "v2").  One run of the command line is     *)
(* modelled: enumerate the tree, fingerprint every file, group equal       *)
(* fingerprints, report, and (with --delete) walk the prompts and remove   *)
(* all but the keeper of each group.                                       *)
(***************************************************************************)
EXTENDS Naturals, Sequences, FiniteSets, TLC

(* ------------------------------ bounds --------------------------------- *)
\* number of worker processes of the pool (os.cpu_count() of the machine)
PoolSize == 2
\* at most this many rejected answers are typed during one run
MaxInvalid == 1
\* at most this many calls of clean_up are made by one process
MaxCalls == 2
\* at most this many files are changed by other processes during one run
MaxChanges == 1

(* --------------------------- the file system --------------------------- *)
\* os.sep on POSIX
Sep == "/"

\* a path is the sequence of its characters
Root == <<"/", "r">>

\* os.path.join(dirpath, filename) followed by os.path.abspath of an
\* already absolute, normalised path
Join(dirpath, filename) == dirpath \o <<Sep, filename>>

\* the places of the tree where a regular file may exist
FilePaths ==
    { Join(Root, "a"),
      Join(Join(Join(Root, "d"), "e"), "a"),
      Join(Join(Root, "e"), "a"),
      Join(Join(Root, "e"), "b") }

Absent == "<absent>"
Contents == {"x", "y"}

\* the order in which the operating system lists directory entries is
\* arbitrary; os.walk lists the files and the subdirectories of a directory
\* separately, so only the relative order of a,b and of d,e matters
ListingOrders ==
    { <<"a", "b", "d", "e">>, <<"b", "a", "d", "e">>,
      <<"a", "b", "e", "d">>, <<"b", "a", "e", "d">> }

IsPrefix(s, t) == Len(s) <= Len(t) /\ SubSeq(t, 1, Len(s)) = s

Exists(d, p) == d[p] # Absent

\* a directory exists when some file lives below it
IsDir(d, dir) ==
    \E p \in FilePaths : Exists(d, p) /\ Len(dir) < Len(p)
                         /\ IsPrefix(dir \o <<Sep>>, p)

RECURSIVE Concat(_)
Concat(ss) == IF ss = <<>> THEN <<>> ELSE Head(ss) \o Concat(Tail(ss))

\* os.walk(directory), top-down: the files of dirpath in listing order, then
\* each subdirectory in listing order
RECURSIVE Walk(_, _, _)
Walk(d, order, dirpath) ==
    LET isFile(n) == Join(dirpath, n) \in FilePaths /\ Exists(d, Join(dirpath, n))
        isSub(n)  == IsDir(d, Join(dirpath, n))
        filenames == SelectSeq(order, isFile)
        dirnames  == SelectSeq(order, isSub)
    IN  [i \in 1..Len(filenames) |-> Join(dirpath, filenames[i])]
        \o Concat([i \in 1..Len(dirnames) |-> Walk(d, order, Join(dirpath, dirnames[i]))])

\* get_file_paths: os.walk on a root that is missing or is not a directory
\* yields nothing (the scandir error is swallowed, onerror is None)
get_file_paths(kind, d, order) ==
    IF kind = "dir" THEN Walk(d, order, Root) ELSE <<>>

(* ----------------------------- fingerprints ---------------------------- *)
NoneHash == "<None>"
PendingResult == "<pending>"
Fault == "<fault>"

\* hashlib.md5(content).hexdigest() on the modelled contents
Md5(content) ==
    CASE content = "x" -> "9dd4e461268c8034f5c8564e155c67a6"
      [] content = "y" -> "415290769594460e2e485922904f345d"
      [] OTHER        -> "d41d8cd98f00b204e9800998ecf8427e"

\* path.count(os.sep)
RECURSIVE CountSep(_)
CountSep(p) ==
    IF p = <<>> THEN 0
    ELSE (IF Head(p) = Sep THEN 1 ELSE 0) + CountSep(Tail(p))


(* ---------------------------- retention policy ------------------------- *)
\* insert x behind every element whose key is not larger: equal keys keep
\* their arrival order
RECURSIVE InsertStable(_, _)
InsertStable(x, sorted) ==
    IF sorted = <<>> THEN <<x>>
    ELSE IF CountSep(Head(sorted)) <= CountSep(x)
         THEN <<Head(sorted)>> \o InsertStable(x, Tail(sorted))
         ELSE <<x>> \o sorted

\* a sort that is not stable: an element goes in front of those of equal depth
RECURSIVE InsertFront(_, _)
InsertFront(x, sorted) ==
    IF sorted = <<>> THEN <<x>>
    ELSE IF CountSep(Head(sorted)) < CountSep(x)
         THEN <<Head(sorted)>> \o InsertFront(x, Tail(sorted))
         ELSE <<x>> \o sorted

RECURSIVE SortByDepthUnstable(_)
SortByDepthUnstable(paths) ==
    IF paths = <<>> THEN <<>>
    ELSE InsertFront(paths[Len(paths)],
                     SortByDepthUnstable(SubSeq(paths, 1, Len(paths) - 1)))

\* paths.sort(key=lambda p: p.count(os.sep)); list.sort is stable
RECURSIVE SortByDepth(_)
SortByDepth(paths) ==
    IF paths = <<>> THEN <<>>
    ELSE InsertStable(paths[Len(paths)], SortByDepth(SubSeq(paths, 1, Len(paths) - 1)))

(* ------------------------------ the prompts ---------------------------- *)
\* str.lower() on the characters that are typed in the model
Lower(c) ==
    CASE c = "Y" -> "y"
      [] c = "E" -> "e"
      [] c = "S" -> "s"
      [] c = "N" -> "n"
      [] c = "O" -> "o"
      [] OTHER   -> c

IsSpace(c) == c \in {" ", "\t"}

RECURSIVE LStrip(_)
LStrip(s) == IF s # <<>> /\ IsSpace(Head(s)) THEN LStrip(Tail(s)) ELSE s

RECURSIVE RStrip(_)
RStrip(s) ==
    IF s # <<>> /\ IsSpace(s[Len(s)]) THEN RStrip(SubSeq(s, 1, Len(s) - 1)) ELSE s

\* input(...).strip().lower()
Normalize(line) ==
    LET t == RStrip(LStrip(line)) IN [i \in 1..Len(t) |-> Lower(t[i])]

Yes == { <<"y", "e", "s">>, <<"y">> }
No == { <<"n", "o">>, <<"n">> }

\* a check that also lets the empty line through
AcceptedOrEmpty(line) == Normalize(line) \in Yes \cup No \cup {<<>>}

\* show in ["yes", "y", "no", "n"]
Accepted(line) == Normalize(line) \in Yes \cup No

\* show in ["yes", "y"]
Affirmative(line) == Normalize(line) \in Yes

\* the lines an operator may type
InputLines ==
    { <<"y", "e", "s">>, <<"y">>, <<"n", "o">>, <<"n">>,
      <<" ", "Y", "E", "S", "\t">>,
      <<>>, <<"n", "o", "p", "e">> }


(* -------------------------------- state -------------------------------- *)
VARIABLES
    version,          \* "v1": clean_up.py, "v2": cleanup_v2.py
    show_collisions,  \* --show-duplicates
    delete,           \* --delete
    rootKind,         \* what the directory argument names: "dir", "missing", "file"
    disk,             \* the files under the root: path -> content or Absent
    disk0,            \* the disk when the run started
    pc,               \* where clean_up stands
    exc,              \* the exception that ended the run, "" if none
    file_paths,       \* the enumerated paths
    results,          \* v2: the pool's result per submitted path
    next,             \* index of the next path to hash (v1) or result to retrieve (v2)
    file_to_hash,     \* module-level dict: set of <<path, hash>>
    hash_to_files,    \* module-level defaultdict(list), in insertion order
    collisions,       \* keys of the groups of two or more, in dict order; the
                      \* lists themselves are shared with hash_to_files
    show,             \* answer to the show-details prompt
    confirm_delete,   \* answer to the explicit-acknowledgement prompt
    gi,               \* delete_duplicates: index of the current group
    pi,               \* delete_duplicates: index of the current path, 0 before the sort
    removeCalls,      \* the os.remove calls made, in order
    out,              \* what was printed, in order
    typed,            \* the last line input() returned, <<>> before the first
    invalid,          \* number of rejected answers typed so far
    calls             \* number of clean_up calls this process has begun

vars == <<version, show_collisions, delete, rootKind, disk, disk0, pc, exc,
          file_paths, results, next, file_to_hash, hash_to_files, collisions,
          show, confirm_delete, gi, pi, removeCalls, out, typed, invalid, calls>>

args == <<version, show_collisions, delete, rootKind, disk0, calls>>
index == <<file_to_hash, hash_to_files>>
answers == <<show, confirm_delete>>
deletion == <<gi, pi, removeCalls>>

\* one printed line (or block of lines)
Ev(kind, h, ps, n) == [k |-> kind, h |-> h, ps |-> ps, n |-> n]
Line(kind) == Ev(kind, "", <<>>, 0)

Existing(d) == {p \in FilePaths : Exists(d, p)}

Init ==
    /\ version \in {"v1", "v2"}
    /\ show_collisions \in BOOLEAN
    /\ delete \in BOOLEAN
    /\ rootKind \in {"dir", "missing", "file"}
    /\ disk \in [FilePaths -> Contents \cup {Absent}]
    /\ rootKind # "dir" => Existing(disk) = {}
    /\ disk0 = disk
    /\ pc = "start"
    /\ exc = ""
    /\ file_paths = <<>>
    /\ results = <<>>
    /\ next = 1
    /\ file_to_hash = {}
    /\ hash_to_files = <<>>
    /\ collisions = <<>>
    /\ show = FALSE
    /\ confirm_delete = FALSE
    /\ gi = 0
    /\ pi = 0
    /\ removeCalls = <<>>
    /\ out = <<>>
    /\ typed = <<>>
    /\ invalid = 0
    /\ calls = 1

(* ------------------------------ the index ------------------------------ *)
HasKey(h2f, h) == \E i \in 1..Len(h2f) : h2f[i].h = h

KeyIndex(h2f, h) == CHOOSE i \in 1..Len(h2f) : h2f[i].h = h

\* hash_to_files[h] for a key that is present
PathsOf(h2f, h) == h2f[KeyIndex(h2f, h)].paths

\* hash_to_files[file_hash].append(path): a missing key is created at the end
AppendPath(h2f, h, path) ==
    IF HasKey(h2f, h)
    THEN [h2f EXCEPT ![KeyIndex(h2f, h)].paths = Append(@, path)]
    ELSE Append(h2f, [h |-> h, paths |-> <<path>>])

\* file_to_hash[path] = file_hash
SetHash(f2h, path, h) == {pr \in f2h : pr[1] # path} \cup {<<path, h>>}

\* the comprehension without its size filter
CollisionsAll(h2f) == [i \in 1..Len(h2f) |-> h2f[i].h]

\* the filter with the wrong size: every list that is not empty passes
CollisionEntriesNonEmpty(h2f) ==
    LET some(e) == Len(e.paths) > 0 IN SelectSeq(h2f, some)

\* the items of a fingerprint -> paths mapping that pass "len(paths) > 1"
CollisionEntries(h2f) ==
    LET big(e) == Len(e.paths) > 1 IN SelectSeq(h2f, big)

\* {h: paths for h, paths in hash_to_files.items() if len(paths) > 1}
Collisions(h2f) ==
    LET kept == CollisionEntries(h2f)
    IN  [i \in 1..Len(kept) |-> kept[i].h]

\* display_collisions(collisions)
display_collisions(h2f, colls) ==
    IF colls # <<>>
    THEN [i \in 1..Len(colls) |-> Ev("group", colls[i], PathsOf(h2f, colls[i]), 0)]
    ELSE <<Line("no_collisions")>>

(* ---------------------------- fingerprinting --------------------------- *)
OSError == "<OSError>"

\* open(file_path, 'rb') and the chunked read: the digest, or an OSError
\* when the file cannot be opened or read
ReadDigest(d, path, readable) ==
    IF readable /\ Exists(d, path) THEN Md5(d[path]) ELSE OSError

\* v1 hash_file: the error propagates
hash_file(d, path, readable) == ReadDigest(d, path, readable)

\* v2 process_file: except (OSError, PermissionError) -> (file_path, None)
process_file(d, path, readable) ==
    LET r == ReadDigest(d, path, readable)
    IN  IF r = OSError THEN NoneHash ELSE r

\* "if file_hash:" None and the empty string are falsy
Truthy(h) == h # NoneHash /\ h # ""


(* ------------------------------- clean_up ------------------------------ *)
\* time_it prints the elapsed time when the wrapped call returns (v2 only;
\* the decorator is commented out in v1)
Timed == IF version = "v2" THEN <<Line("timed")>> ELSE <<>>

\* clean_up returns normally after printing lines
Return(lines) ==
    /\ pc' = "done"
    /\ out' = out \o lines \o Timed
    /\ UNCHANGED exc

\* an exception leaves clean_up uncaught: the process ends with a traceback
Raise(e) ==
    /\ pc' = "error"
    /\ exc' = e
    /\ UNCHANGED out

\* file_paths = get_file_paths(directory), under whatever order the
\* operating system lists the entries in; v2 then submits every path to the pool
GetFilePaths ==
    /\ pc = "start"
    /\ \E order \in ListingOrders :
         file_paths' = get_file_paths(rootKind, disk, order)
    /\ results' = IF version = "v2"
                  THEN [i \in 1..Len(file_paths') |-> PendingResult]
                  ELSE <<>>
    /\ out' = IF version = "v2"
              THEN out \o <<Line("gathering"), Ev("found", "", <<>>, Len(file_paths'))>>
              ELSE out
    /\ pc' = "hash"
    /\ UNCHANGED <<args, disk, exc, next, index, collisions, answers, deletion, typed, invalid>>

\* v1: one turn of "for path in file_paths": hash, then record
HashV1 ==
    /\ pc = "hash" /\ version = "v1"
    /\ next <= Len(file_paths)
    /\ \E readable \in BOOLEAN :
         LET path == file_paths[next]
             file_hash == hash_file(disk, path, readable)
         IN  IF file_hash = OSError
             THEN /\ Raise("OSError")
                  /\ UNCHANGED <<next, index>>
             ELSE /\ file_to_hash' = SetHash(file_to_hash, path, file_hash)
                  /\ hash_to_files' = AppendPath(hash_to_files, file_hash, path)
                  /\ next' = next + 1
                  /\ UNCHANGED <<pc, exc, out>>
    /\ UNCHANGED <<args, disk, file_paths, results, collisions, answers, deletion, typed, invalid>>

\* the tasks are started in submission order, at most PoolSize at a time
Running(res, i) ==
    /\ res[i] = PendingResult
    /\ Cardinality({j \in 1..(i - 1) : res[j] = PendingResult}) < PoolSize

\* workers that record their digest in the index themselves
WorkerV2Shared ==
    /\ pc = "hash" /\ version = "v2"
    /\ \E i \in 1..Len(file_paths) :
         /\ Running(results, i)
         /\ \E r \in {process_file(disk, file_paths[i], TRUE),
                      process_file(disk, file_paths[i], FALSE), Fault} :
              /\ results' = [results EXCEPT ![i] = r]
              /\ IF Truthy(r) /\ r # Fault
                 THEN /\ file_to_hash' = SetHash(file_to_hash, file_paths[i], r)
                      /\ hash_to_files' = AppendPath(hash_to_files, r, file_paths[i])
                 ELSE UNCHANGED index
    /\ UNCHANGED <<args, disk, pc, exc, file_paths, next, collisions,
                   answers, deletion, out, typed, invalid>>

\* v2: a pool worker finishes the task of path i, in any order among the
\* running tasks; the task returns process_file's pair, or the worker dies /
\* raises something that process_file does not catch
WorkerV2 ==
    /\ pc = "hash" /\ version = "v2"
    /\ \E i \in 1..Len(file_paths) :
         /\ Running(results, i)
         /\ \E r \in {process_file(disk, file_paths[i], TRUE),
                      process_file(disk, file_paths[i], FALSE), Fault} :
              results' = [results EXCEPT ![i] = r]
    /\ UNCHANGED <<args, disk, pc, exc, file_paths, next, index, collisions,
                   answers, deletion, out, typed, invalid>>

\* an iterator that hands over the latest submitted task that has finished
\* (completion order instead of submission order)
YieldedLatestDone(res, n) ==
    IF \E i \in n..Len(res) : res[i] # PendingResult
    THEN CHOOSE i \in n..Len(res) :
            /\ res[i] # PendingResult
            /\ \A j \in (i + 1)..Len(res) : res[j] = PendingResult
    ELSE n

\* the task whose result the iterator of executor.map hands over as its n-th:
\* the n-th submitted, whatever has finished
Yielded(res, n) == n

\* v2: "for path, file_hash in results": executor.map hands the results over
\* in submission order; a failed task re-raises its exception here
RetrieveV2 ==
    /\ pc = "hash" /\ version = "v2"
    /\ next <= Len(file_paths)
    /\ results[Yielded(results, next)] # PendingResult
    /\ LET path == file_paths[Yielded(results, next)]
           file_hash == results[Yielded(results, next)]
       IN  IF file_hash = Fault
           THEN /\ Raise("WorkerFault")
                /\ UNCHANGED <<next, index>>
           ELSE /\ IF Truthy(file_hash)
                   THEN /\ file_to_hash' = SetHash(file_to_hash, path, file_hash)
                        /\ hash_to_files' = AppendPath(hash_to_files, file_hash, path)
                   ELSE UNCHANGED index
                /\ next' = next + 1
                /\ UNCHANGED <<pc, exc, out>>
    /\ UNCHANGED <<args, disk, file_paths, results, collisions, answers, deletion, typed, invalid>>

\* a loop that stops one result short
DrainedEarly(n, paths) == n >= Len(paths)

\* the loop over the paths (v1) or over the results (v2) is exhausted; in v2
\* the "with" block then ends, every task having finished
Drained(n, paths) == n > Len(paths)

\* collisions = {...}; the report; then "if delete:" the first input() call
Report ==
    /\ pc = "hash"
    /\ Drained(next, file_paths)
    /\ collisions' = Collisions(hash_to_files)
    /\ LET report == IF show_collisions
                     THEN display_collisions(hash_to_files, collisions')
                     ELSE <<Ev("count", "", <<>>, Len(collisions'))>>
       IN  IF delete
           THEN /\ pc' = "proceed"
                /\ out' = out \o report \o <<Line("prompt_proceed")>>
                /\ UNCHANGED exc
           ELSE Return(report)
    /\ UNCHANGED <<args, disk, file_paths, results, next, index, answers, deletion, typed, invalid>>

\* input("Proceed to Delete? Hit Enter to Continue") returned a line; the
\* line itself is not looked at
ProceedAnswer ==
    /\ pc = "proceed"
    /\ \E line \in InputLines :
         /\ typed' = line
         /\ IF collisions # <<>>
            THEN /\ pc' = IF ~show_collisions THEN "show_prompt" ELSE "confirm_prompt"
                 /\ out' = out \o <<Line("warning"),
                                    IF ~show_collisions THEN Line("prompt_show")
                                                        ELSE Line("prompt_confirm")>>
                 /\ UNCHANGED exc
            ELSE Return(<<Line("nothing_to_delete")>>)
    /\ UNCHANGED <<args, disk, file_paths, results, next, index, collisions,
                   answers, deletion, invalid>>

\* Ctrl+C at the first prompt: v2 catches KeyboardInterrupt and returns, v1
\* has no handler
ProceedInterrupt ==
    /\ pc = "proceed"
    /\ IF version = "v2"
       THEN Return(<<Line("cancelled")>>)
       ELSE Raise("KeyboardInterrupt")
    /\ UNCHANGED <<args, disk, file_paths, results, next, index, collisions,
                   answers, deletion, typed, invalid>>

\* the listing printed whatever was answered
ShowListingAlways(answer) == TRUE

\* "if show:" decides whether display_collisions is called
ShowListing(answer) == answer

\* one turn of the "show all the files?" loop
ShowAnswer ==
    /\ pc = "show_prompt"
    /\ \E line \in InputLines :
         /\ typed' = line
         /\ IF Accepted(line)
            THEN /\ show' = Affirmative(line)
                 /\ out' = out \o (IF ShowListing(show')
                                   THEN display_collisions(hash_to_files, collisions)
                                   ELSE <<>>)
                               \o <<Line("prompt_confirm")>>
                 /\ pc' = "confirm_prompt"
                 /\ UNCHANGED invalid
            ELSE /\ invalid < MaxInvalid
                 /\ invalid' = invalid + 1
                 /\ out' = out \o <<Line("please_enter"), Line("prompt_show")>>
                 /\ UNCHANGED <<pc, show>>
    /\ UNCHANGED <<args, disk, exc, file_paths, results, next, index, collisions,
                   confirm_delete, deletion>>

\* Ctrl+C inside the show-details loop: no handler around it
ShowInterrupt ==
    /\ pc = "show_prompt"
    /\ Raise("KeyboardInterrupt")
    /\ UNCHANGED <<args, disk, file_paths, results, next, index, collisions,
                   answers, deletion, typed, invalid>>

\* the guard dropped: delete_duplicates is called whatever the answer
GoAheadAlways(confirmed) == TRUE

\* "if confirm_delete:" guards the call of delete_duplicates
GoAhead(confirmed) == confirmed

\* one turn of the "Do you know what you are doing" loop
ConfirmAnswer ==
    /\ pc = "confirm_prompt"
    /\ \E line \in InputLines :
         /\ typed' = line
         /\ IF Accepted(line)
            THEN /\ confirm_delete' = Affirmative(line)
                 /\ IF GoAhead(confirm_delete')
                    THEN /\ pc' = "delete"
                         /\ gi' = 1
                         /\ UNCHANGED <<out, exc>>
                    ELSE /\ Return(<<Line("aborted")>>)
                         /\ UNCHANGED gi
                 /\ UNCHANGED invalid
            ELSE /\ invalid < MaxInvalid
                 /\ invalid' = invalid + 1
                 /\ out' = out \o <<Line("please_enter"), Line("prompt_confirm")>>
                 /\ UNCHANGED <<pc, exc, confirm_delete, gi>>
    /\ UNCHANGED <<args, disk, file_paths, results, next, index, collisions,
                   show, pi, removeCalls>>

\* Ctrl+C inside the acknowledgement loop: no handler around it
ConfirmInterrupt ==
    /\ pc = "confirm_prompt"
    /\ Raise("KeyboardInterrupt")
    /\ UNCHANGED <<args, disk, file_paths, results, next, index, collisions,
                   answers, deletion, typed, invalid>>

(* --------------------------- delete_duplicates ------------------------- *)
\* the slice starting at the keeper
TargetsAll(paths) == paths

\* paths[1:]
Targets(paths) == SubSeq(paths, 2, Len(paths))

\* os.remove(path) on the disk
Unlink(d, path) == [d EXCEPT ![path] = Absent]

\* a failure that makes the loop pass over the path that follows
AfterFailureSkip(i) == i + 2

\* what the loop does after an os.remove that raised: the except clause
\* prints and the loop goes on with the next path
AfterFailure(i) == i + 1

\* "for _, paths in collisions.items()": the next group is sorted in place
\* (the list is the one hash_to_files holds)
SortGroup ==
    /\ pc = "delete" /\ pi = 0
    /\ gi <= Len(collisions)
    /\ LET j == KeyIndex(hash_to_files, collisions[gi])
       IN  IF Len(hash_to_files[j].paths) > 1
           THEN /\ hash_to_files' = [hash_to_files EXCEPT ![j].paths = SortByDepth(@)]
                /\ pi' = 1
                /\ UNCHANGED gi
           ELSE /\ gi' = gi + 1
                /\ UNCHANGED <<hash_to_files, pi>>
    /\ UNCHANGED <<args, disk, pc, exc, file_paths, results, next, file_to_hash,
                   collisions, answers, removeCalls, out, typed, invalid>>

\* one turn of "for path in paths[1:]": try os.remove, print the outcome
Remove ==
    /\ pc = "delete" /\ pi >= 1
    /\ LET targets == Targets(PathsOf(hash_to_files, collisions[gi]))
           path == targets[pi]
           step(n) == IF n > Len(targets)
                      THEN /\ gi' = gi + 1
                           /\ pi' = 0
                      ELSE /\ pi' = n
                           /\ UNCHANGED gi
       IN  /\ removeCalls' = Append(removeCalls, path)
           /\ \E permitted \in BOOLEAN :
                IF permitted /\ Exists(disk, path)
                THEN /\ disk' = Unlink(disk, path)
                     /\ out' = out \o <<Ev("Deleted", "", <<path>>, 0)>>
                     /\ step(pi + 1)
                ELSE /\ out' = out \o <<Ev("Error deleting", "", <<path>>, 0)>>
                     /\ step(AfterFailure(pi))
                     /\ UNCHANGED disk
    /\ UNCHANGED <<args, pc, exc, file_paths, results, next, index, collisions,
                   answers, typed, invalid>>

\* the loop over the groups is exhausted: delete_duplicates and clean_up return
DeleteReturn ==
    /\ pc = "delete" /\ pi = 0
    /\ gi > Len(collisions)
    /\ Return(<<>>)
    /\ UNCHANGED <<args, disk, file_paths, results, next, index, collisions,
                   answers, deletion, typed, invalid>>

Next ==
    \/ GetFilePaths
    \/ HashV1
    \/ WorkerV2
    \/ RetrieveV2
    \/ Report
    \/ ProceedAnswer
    \/ ProceedInterrupt
    \/ ShowAnswer
    \/ ShowInterrupt
    \/ ConfirmAnswer
    \/ ConfirmInterrupt
    \/ SortGroup
    \/ Remove
    \/ DeleteReturn

Spec == Init /\ [][Next]_vars

\* the steps of the program itself and of an operator who answers: every
\* hashing task returns, the coordinator runs on, each input() gets a line
Progress ==
    \/ GetFilePaths
    \/ HashV1
    \/ WorkerV2
    \/ RetrieveV2
    \/ Report
    \/ ProceedAnswer
    \/ ShowAnswer
    \/ ConfirmAnswer
    \/ SortGroup
    \/ Remove
    \/ DeleteReturn

\* a run in which no task hangs and the operator does not walk away; the
\* rejected answers are at most MaxInvalid, so an accepted one comes
\* the two contents are interchangeable (only equality of digests matters),
\* so the first existing file in this order is given the content "x"
ScanOrder ==
    << Join(Root, "a"),
       Join(Join(Root, "e"), "a"),
       Join(Join(Root, "e"), "b"),
       Join(Join(Join(Root, "d"), "e"), "a") >>

Canonical(d) ==
    \A i \in 1..Len(ScanOrder) :
        d[ScanOrder[i]] = "y" => \E j \in 1..(i - 1) : d[ScanOrder[j]] = "x"

\* the runs checked for termination: every tree under clean_up.py, the
\* trees of up to three files under the pool of cleanup_v2.py
InitLive ==
    /\ Init
    /\ Canonical(disk)
    /\ version = "v2" => Cardinality(Existing(disk)) <= 3

SpecLive == InitLive /\ [][Next]_vars /\ WF_vars(Progress)

\* a process that imported the module calls clean_up(directory, ...) again
\* after a call that returned: the locals of clean_up are new, the
\* module-level file_to_hash and hash_to_files are the objects the earlier
\* call filled, and the disk is as that call left it
CallAgain ==
    /\ pc = "done"
    /\ calls < MaxCalls
    /\ calls' = calls + 1
    /\ pc' = "start"
    /\ exc' = ""
    /\ file_paths' = <<>>
    /\ results' = <<>>
    /\ next' = 1
    /\ collisions' = <<>>
    /\ show' = FALSE
    /\ confirm_delete' = FALSE
    /\ gi' = 0
    /\ pi' = 0
    /\ removeCalls' = <<>>
    /\ out' = <<>>
    /\ typed' = <<>>
    /\ invalid' = 0
    /\ disk0' = disk
    /\ UNCHANGED <<version, show_collisions, delete, rootKind, disk, index>>

NextMulti == Next \/ CallAgain

\* trees of at most two files are enough for a second call to meet what
\* the first one left in the index
InitMulti ==
    /\ Init
    /\ Canonical(disk)
    /\ Cardinality(Existing(disk)) <= 2

SpecMulti == InitMulti /\ [][NextMulti]_vars

\* the grouping is done and clean_up waits in input(): the delete phase, if
\* it comes, works from hash_to_files as the scan left it
Waiting == pc \in {"proceed", "show_prompt", "confirm_prompt"}

Changed == {p \in FilePaths : disk[p] # disk0[p]}

\* another process removes a file while clean_up waits for the operator
EnvRemove ==
    /\ Waiting
    /\ Cardinality(Changed) < MaxChanges
    /\ \E p \in Existing(disk) : disk' = Unlink(disk, p)
    /\ UNCHANGED <<args, pc, exc, file_paths, results, next, index, collisions,
                   answers, deletion, out, typed, invalid>>

\* another process rewrites a file while clean_up waits for the operator
EnvModify ==
    /\ Waiting
    /\ Cardinality(Changed) < MaxChanges
    /\ \E p \in Existing(disk) :
         \E c \in Contents \ {disk[p]} : disk' = [disk EXCEPT ![p] = c]
    /\ UNCHANGED <<args, pc, exc, file_paths, results, next, index, collisions,
                   answers, deletion, out, typed, invalid>>

NextEnv == Next \/ EnvRemove \/ EnvModify

\* runs with --delete on trees of at most three files
InitEnv ==
    /\ Init
    /\ delete
    /\ Canonical(disk)
    /\ Cardinality(Existing(disk)) <= 3

SpecEnv == InitEnv /\ [][NextEnv]_vars


(* ------------------------------ properties ----------------------------- *)
Range(seq) == {seq[i] : i \in DOMAIN seq}

Printed(kind) == \E i \in DOMAIN out : out[i].k = kind

CountPrinted(kind) == Cardinality({i \in DOMAIN out : out[i].k = kind})

\* some file was removed, or a removal was attempted
Removals == removeCalls # <<>> \/ disk # disk0

AnsweredYes == Normalize(typed) \in {<<"y", "e", "s">>, <<"y">>}
AnsweredNo == Normalize(typed) \in {<<"n", "o">>, <<"n">>}

\* the paths of the i-th reported group, as the index holds them now
GroupPaths(i) == PathsOf(hash_to_files, collisions[i])
GroupSet(i) == Range(GroupPaths(i))
Grouped == UNION {GroupSet(i) : i \in DOMAIN collisions}

\* the report of the duplicate groups has been printed
Reported == Printed("count") \/ Printed("group") \/ Printed("no_collisions")

\* C1: no file is removed and os.remove is not called unless --delete was
\* given, a duplicate group was found and the acknowledgement prompt was
\* answered yes/y; after a no/n answer to it the run is over with no removal
C1_RemovalOnlyAfterAcknowledgement ==
    /\ Removals => /\ delete
                   /\ collisions # <<>>
                   /\ Printed("prompt_confirm")
                   /\ AnsweredYes
    /\ (pc \in {"delete", "done"} /\ Printed("prompt_confirm") /\ AnsweredNo)
          => pc = "done" /\ ~Removals /\ Printed("aborted")

C1_Witness ==
    /\ pc = "done"
    /\ removeCalls # <<>>
    /\ disk # disk0
    /\ AnsweredYes

\* the members of the group with fingerprint h, in the order they were discovered
Discovery(h) ==
    LET member(p) == <<p, h>> \in file_to_hash IN SelectSeq(file_paths, member)

MinDepth(ps) ==
    CHOOSE m \in {CountSep(ps[i]) : i \in DOMAIN ps} :
        \A i \in DOMAIN ps : m <= CountSep(ps[i])

\* the earliest member of least depth
FirstShallowest(ps) ==
    ps[CHOOSE i \in DOMAIN ps :
          /\ CountSep(ps[i]) = MinDepth(ps)
          /\ \A j \in 1..(i - 1) : CountSep(ps[j]) > MinDepth(ps)]

\* delete_duplicates has sorted group i and is, or was, removing its targets
Handled(i) == pc \in {"delete", "done"} /\ (i < gi \/ (i = gi /\ pi >= 1))

\* C2: in every group delete_duplicates handles, the keeper is the earliest
\* discovered member of least separator count, every other member and only
\* those are designated, and the keeper is never handed to os.remove
C2_KeeperIsFirstShallowest ==
    \A i \in DOMAIN collisions :
        LET orig == Discovery(collisions[i])
            now  == GroupPaths(i)
        IN  /\ ~Handled(i) => now = orig
            /\ Handled(i) =>
                 /\ now[1] = FirstShallowest(orig)
                 /\ Len(now) = Len(orig)
                 /\ Range(Targets(now)) = Range(orig) \ {now[1]}
                 /\ now[1] \notin Range(removeCalls)
                 /\ i < gi => Range(Targets(now)) \subseteq Range(removeCalls)

C2_Witness ==
    /\ pc = "delete" /\ pi >= 1
    /\ LET orig == Discovery(collisions[gi])
       IN  /\ Len(orig) = 3
           /\ CountSep(orig[1]) > MinDepth(orig)
           /\ CountSep(orig[2]) = MinDepth(orig)
           /\ CountSep(orig[3]) = MinDepth(orig)
           /\ GroupPaths(gi)[1] = orig[2]

\* a run with --delete in which the acknowledgement was given and every
\* removal succeeded has returned
DeletedCleanly ==
    /\ pc = "done" /\ delete
    /\ Printed("prompt_confirm") /\ AnsweredYes
    /\ ~Printed("Error deleting")

\* C3: after such a run exactly one member of every duplicate group is left,
\* with its content, and every file outside the groups is as it was
C3_OneSurvivorPerGroup ==
    DeletedCleanly =>
        /\ \A i \in DOMAIN collisions :
             /\ Cardinality({p \in GroupSet(i) : Exists(disk, p)}) = 1
             /\ \A p \in GroupSet(i) : Exists(disk, p) => disk[p] = disk0[p]
        /\ \A p \in FilePaths \ Grouped : disk[p] = disk0[p]

C3_Witness ==
    /\ DeletedCleanly
    /\ Len(collisions) = 1
    /\ Cardinality(GroupSet(1)) = 2
    /\ Cardinality(Existing(disk0)) = 3
    /\ Cardinality(Existing(disk)) = 2
    /\ \E p \in Existing(disk) \ Grouped : disk[p] = "y"

\* the files whose fingerprint the run has obtained
Fingerprinted == {pr[1] : pr \in file_to_hash}

SameGroup(p, q) == \E i \in DOMAIN collisions : {p, q} \subseteq GroupSet(i)

\* C4: once the report is out, the groups are exactly the fingerprint
\* classes of two or more successfully fingerprinted files: two fingerprinted
\* files share a group iff their fingerprints are equal, every member of a
\* group is a fingerprinted file with a partner, no path is listed twice, and
\* the printed count or listing is that of these groups
C4_GroupsAreFingerprintClasses ==
    Reported =>
        /\ \A i \in DOMAIN file_paths :
             file_paths[i] \in Fingerprinted <=>
                 (version = "v1" \/ Truthy(results[i]))
        /\ \A p \in Fingerprinted : \A q \in Fingerprinted \ {p} :
             SameGroup(p, q) <=> Md5(disk0[p]) = Md5(disk0[q])
        /\ \A p \in Grouped :
             /\ p \in Fingerprinted
             /\ \E q \in Fingerprinted \ {p} : Md5(disk0[q]) = Md5(disk0[p])
        /\ \A i \in DOMAIN collisions :
             /\ Len(GroupPaths(i)) = Cardinality(GroupSet(i))
             /\ \A j \in DOMAIN collisions : i # j => GroupSet(i) \cap GroupSet(j) = {}
        /\ \A e \in Range(out) :
             /\ e.k = "count" => e.n = Len(collisions)
             /\ e.k = "group" => \E i \in DOMAIN collisions :
                                    e.h = collisions[i] /\ Range(e.ps) = GroupSet(i)
        /\ Printed("group") => CountPrinted("group") = Len(collisions)

C4_Witness ==
    /\ Reported /\ ~delete /\ pc = "done"
    /\ Cardinality(Existing(disk0)) = 3
    /\ Fingerprinted = Existing(disk0)
    /\ Len(collisions) = 1
    /\ Cardinality(GroupSet(1)) = 2
    /\ \A p \in GroupSet(1) : disk0[p] = "x"
    /\ \E p \in Fingerprinted \ Grouped : disk0[p] = "y"


AnyPrompt == Printed("prompt_proceed") \/ Printed("prompt_show") \/ Printed("prompt_confirm")

\* C5: when the scan finds no duplicate group, no prompt is issued and
\* nothing is deleted, whether or not --delete was given
C5_NoPromptWithoutDuplicates ==
    (Reported /\ collisions = <<>>) => ~AnyPrompt /\ ~Removals

Prompts == {"proceed", "show_prompt", "confirm_prompt"}

\* the line just read is one of yes / y / no / n after strip and lower
IsToken(line) == Normalize(line) \in {<<"y", "e", "s">>, <<"y">>, <<"n", "o">>, <<"n">>}

\* a step in which a prompt's input() returned a line (not an interrupt)
AnswerStep ==
    /\ pc \in Prompts
    /\ exc' = exc
    /\ ~(Printed("cancelled"))'

\* a rejected answer changes nothing the program keeps
NoStateChange ==
    /\ pc' = pc
    /\ UNCHANGED <<disk, file_paths, results, next, file_to_hash, hash_to_files,
                   collisions, show, confirm_delete, gi, pi, removeCalls>>

\* C6 as stated: each of the three prompts advances only on yes/y/no/n, and
\* any other line leaves the flow at the same prompt with no state change
C6_EveryPromptValidates ==
    [][AnswerStep => (IsToken(typed') /\ pc' # pc) \/ (~IsToken(typed') /\ NoStateChange)]_vars

\* C6 as the code has it: the show-details and acknowledgement prompts
\* advance exactly on yes/y/no/n, and on any other line stay where they are,
\* change nothing and ask again; the proceed prompt advances on any line
C6_LoopPromptsValidate ==
    [][AnswerStep =>
         IF pc = "proceed"
         THEN pc' # "proceed"
         ELSE \/ IsToken(typed') /\ pc' # pc
              \/ /\ ~IsToken(typed')
                 /\ NoStateChange
                 /\ out' = out \o <<Line("please_enter"),
                                    Line(IF pc = "show_prompt" THEN "prompt_show"
                                                               ELSE "prompt_confirm")>>]_vars

C6_Witness ==
    /\ pc = "confirm_prompt"
    /\ ~IsToken(typed)
    /\ out[Len(out) - 1] = Line("please_enter")
    /\ out[Len(out)] = Line("prompt_confirm")

\* C7: a root that is missing or is not a directory ends the run with an
\* error before anything is enumerated, reported or asked
C7_MissingRootFailsFirst ==
    rootKind # "dir" =>
        /\ pc \in {"start", "error"}
        /\ ~Printed("found") /\ ~Reported /\ ~AnyPrompt

\* C8: Ctrl+C at a prompt ends the run normally, never with an uncaught
\* KeyboardInterrupt, and with nothing removed
C8_InterruptIsCleanAbort ==
    (exc = "KeyboardInterrupt" \/ Printed("cancelled")) =>
        pc = "done" /\ exc = "" /\ ~Removals

\* the paths delete_duplicates is to remove, group by group
Designated ==
    Concat([i \in DOMAIN collisions |-> Targets(SortByDepth(GroupPaths(i)))])

IsOutcome(e) == e.k \in {"Deleted", "Error deleting"}
Outcomes == SelectSeq(out, IsOutcome)

\* C9: os.remove is called once per designated path, in order, whatever the
\* earlier removals did: the calls are always a prefix of the designated
\* list and are the whole list when delete_duplicates has returned; each
\* call has one report; a path reported Deleted is gone and a path reported
\* Error deleting is as it was
C9_EveryTargetAttemptedOnce ==
    /\ IsPrefix(removeCalls, Designated)
    /\ Cardinality(Range(removeCalls)) = Len(removeCalls)
    /\ Len(Outcomes) = Len(removeCalls)
    /\ \A i \in DOMAIN removeCalls :
         /\ Outcomes[i].ps = <<removeCalls[i]>>
         /\ Outcomes[i].k = "Deleted" => ~Exists(disk, removeCalls[i])
         /\ Outcomes[i].k = "Error deleting" =>
               disk[removeCalls[i]] = disk0[removeCalls[i]]
    /\ (pc = "done" /\ Printed("prompt_confirm") /\ AnsweredYes)
          => removeCalls = Designated

C9_Witness ==
    /\ pc = "done"
    /\ Len(removeCalls) = 3
    /\ Outcomes[1].k = "Deleted"
    /\ Outcomes[2].k = "Error deleting"
    /\ Outcomes[3].k = "Deleted"
    /\ Existing(disk0) \ Existing(disk) = {removeCalls[1], removeCalls[3]}

\* C10: a file that cannot be read gets no fingerprint, stays out of the
\* index and of every group, and the run goes on
C10_UnreadableFileIsSkipped ==
    /\ exc # "OSError"
    /\ version = "v2" =>
         \A i \in 1..(next - 1) :
             results[i] = NoneHash => file_paths[i] \notin Fingerprinted \cup Grouped


\* the paths among the first n enumerated whose fingerprint is h, in
\* enumeration order
InOrder(h, n) ==
    LET hit(p) == \E i \in 1..n :
                     /\ file_paths[i] = p
                     /\ IF version = "v2" THEN results[i] = h
                                          ELSE Md5(disk0[p]) = h
    IN  SelectSeq(file_paths, hit)

\* the fingerprints of the first n enumerated paths, each once, in the order
\* of their first path
RECURSIVE KeysInOrder(_)
KeysInOrder(n) ==
    IF n = 0 THEN <<>>
    ELSE LET h == IF version = "v2" THEN results[n] ELSE Md5(disk0[file_paths[n]])
             before == KeysInOrder(n - 1)
         IN  IF ~Truthy(h) \/ h \in Range(before) THEN before ELSE Append(before, h)

\* C11: whatever the order in which the workers finish, the index holds,
\* until delete_duplicates sorts a group, exactly the retrieved prefix of the
\* enumeration: the keys in the order of their first path, and under each key
\* its paths in enumeration order
C11_IndexInDispatchOrder ==
    (pc \in {"hash", "proceed", "show_prompt", "confirm_prompt"}
       \/ (pc = "done" /\ removeCalls = <<>> /\ gi = 0)) =>
        /\ [i \in DOMAIN hash_to_files |-> hash_to_files[i].h] = KeysInOrder(next - 1)
        /\ \A i \in DOMAIN hash_to_files :
             hash_to_files[i].paths = InOrder(hash_to_files[i].h, next - 1)

\* task 3 has finished before task 2, task 1 is retrieved, and the finished
\* result of task 3, a duplicate of path 1, waits for its turn
C11_Witness ==
    /\ version = "v2" /\ pc = "hash"
    /\ Len(file_paths) >= 3
    /\ next = 2
    /\ results[2] = PendingResult
    /\ Truthy(results[3])
    /\ results[3] = results[1]
    /\ hash_to_files = <<[h |-> results[1], paths |-> <<file_paths[1]>>]>>


\* C12: a fault of any kind in the fingerprinting of one path, a dead worker
\* included, never ends the run of cleanup_v2: the path counts as not
\* fingerprinted, every other result is still retrieved, and grouping follows
C12_AnyFaultBecomesNoFingerprint ==
    version = "v2" =>
        /\ exc \notin {"WorkerFault", "OSError"}
        /\ \A i \in 1..(next - 1) :
             results[i] = Fault => file_paths[i] \notin Fingerprinted


\* C13: the groups are computed, and anything is reported or asked, only
\* when the result of every dispatched path has been retrieved and applied;
\* from then on no task is unfinished and the index holds exactly the
\* successfully fingerprinted paths of the enumeration
C13_DrainedBeforeGrouping ==
    (Reported \/ AnyPrompt \/ collisions # <<>>) =>
        /\ next = Len(file_paths) + 1
        /\ version = "v2" =>
             /\ Len(results) = Len(file_paths)
             /\ \A i \in DOMAIN results : results[i] \notin {PendingResult, Fault}
        /\ Fingerprinted =
             {file_paths[i] : i \in {j \in DOMAIN file_paths :
                                       version = "v1" \/ Truthy(results[j])}}

C13_Witness ==
    /\ version = "v2" /\ Reported
    /\ Len(file_paths) = 4
    /\ Cardinality(Fingerprinted) = 3
    /\ collisions # <<>>


\* a step in which a task of the pool delivers its result
WorkerStep == pc = "hash" /\ results' # results

\* C14: a step of a worker changes nothing but the result of its own task,
\* from pending to the pair it returns; the index changes only in steps of
\* the coordinator (retrieving the next result, or sorting a group in
\* delete_duplicates), and those leave the results alone
C14_SingleWriter ==
    [][/\ WorkerStep =>
            /\ UNCHANGED <<file_to_hash, hash_to_files, next, pc, exc, collisions,
                           disk, out>>
            /\ \E i \in DOMAIN results :
                 /\ results[i] = PendingResult
                 /\ results' = [results EXCEPT ![i] = results'[i]]
       /\ (file_to_hash' # file_to_hash \/ hash_to_files' # hash_to_files) =>
            /\ results' = results
            /\ \/ pc = "hash" /\ next' = next + 1
               \/ pc = "delete" /\ file_to_hash' = file_to_hash]_vars

\* two workers have returned digests and the index is still empty
C14_Witness ==
    /\ version = "v2" /\ pc = "hash" /\ next = 1
    /\ Len(file_paths) >= 2
    /\ results[1] \notin {PendingResult, Fault, NoneHash}
    /\ results[2] \notin {PendingResult, Fault, NoneHash}
    /\ file_to_hash = {} /\ hash_to_files = <<>>


\* C16: what the grouping step returns for the index holds no list of fewer
\* than two paths, and putting it through the same filter again returns it
\* unchanged
C16_GroupingIdempotent ==
    LET grouped == CollisionEntries(hash_to_files)
    IN  /\ \A i \in DOMAIN grouped : Len(grouped[i].paths) >= 2
        /\ CollisionEntries(grouped) = grouped
        /\ Reported => collisions = [i \in DOMAIN grouped |-> grouped[i].h]

\* the index holds a fingerprint with one path and one with three
C16_Witness ==
    /\ Reported
    /\ Len(hash_to_files) = 2
    /\ Len(collisions) = 1
    /\ Len(PathsOf(hash_to_files, collisions[1])) = 3


\* what C17 says of a state: the show-details prompt was asked exactly when
\* the flow got past the proceed prompt without the groups on display, and
\* the delete phase is entered only with the acknowledgement prompt asked
ShowPromptRule ==
    /\ Printed("prompt_show") => ~show_collisions
    /\ Printed("warning") => (Printed("prompt_show") <=> ~show_collisions)
    /\ (pc = "delete" \/ Removals) => Printed("prompt_confirm")

\* what C17 says of a step: an accepted show-details answer prints the
\* listing exactly when it is yes/y and is followed by the acknowledgement
\* prompt; the proceed prompt leads to the show-details prompt, or straight to
\* the acknowledgement prompt when the groups were displayed; the delete
\* phase is entered from the acknowledgement prompt only
ShowPromptStep ==
    /\ (pc = "show_prompt" /\ pc' = "confirm_prompt") =>
          /\ Printed("group")' <=> AnsweredYes'
          /\ out'[Len(out')] = Line("prompt_confirm")
    /\ (pc = "show_prompt" /\ exc' = exc) => pc' \in {"show_prompt", "confirm_prompt"}
    /\ (pc = "proceed" /\ pc' \notin {"proceed", "done", "error"}) =>
          /\ pc' = IF show_collisions THEN "confirm_prompt" ELSE "show_prompt"
          /\ out'[Len(out')] = Line(IF show_collisions THEN "prompt_confirm"
                                                       ELSE "prompt_show")
    /\ (pc' = "delete" /\ pc # "delete") => pc = "confirm_prompt"

\* C17: the show-details prompt is asked iff the groups were not already
\* displayed; when asked, the listing is printed exactly on yes/y; either way
\* the acknowledgement prompt comes next, before any deletion
C17_ShowDetailsPrompt == [][ShowPromptStep /\ ShowPromptRule']_vars

C17_Witness ==
    /\ pc = "confirm_prompt"
    /\ ~show_collisions
    /\ AnsweredYes
    /\ Printed("prompt_show") /\ Printed("group")
    /\ out[Len(out)] = Line("prompt_confirm")
    /\ ~Printed("please_enter")


RECURSIVE SumTargets(_)
SumTargets(n) ==
    IF n = 0 THEN 0 ELSE SumTargets(n - 1) + (Len(GroupPaths(n)) - 1)

\* the run is over: clean_up has returned or an exception has ended it
Finished == pc \in {"done", "error"}

\* C20: every run in which the tasks return and the prompts get answered
\* comes to an end; the removal attempts never exceed the sum over the
\* groups of (size - 1) and are exactly that many when delete_duplicates
\* has returned
C20_Terminates ==
    /\ <>Finished
    /\ [](/\ Len(removeCalls) <= SumTargets(Len(collisions))
          /\ (pc = "done" /\ Printed("prompt_confirm") /\ AnsweredYes)
                => Len(removeCalls) = SumTargets(Len(collisions)))

C20_Witness ==
    /\ pc = "done"
    /\ Len(collisions) = 2
    /\ Len(removeCalls) = 2
    /\ CountPrinted("Deleted") = 2

\* the number of entries the index holds for path p, over all its lists
Occurrences(p) ==
    Cardinality(UNION { { <<i, j>> : j \in {k \in DOMAIN hash_to_files[i].paths :
                                               hash_to_files[i].paths[k] = p} } :
                        i \in DOMAIN hash_to_files })

\* C15: when a call computes its duplicate groups, the index holds one entry
\* for each path this call enumerated and fingerprinted, under the digest of
\* the file as this call read it, and no entry of an earlier call
C15_IndexFreshPerCall ==
    Reported =>
        /\ \A pr \in file_to_hash :
             /\ pr[1] \in Range(file_paths)
             /\ disk0[pr[1]] # Absent
             /\ pr[2] = Md5(disk0[pr[1]])
        /\ \A p \in FilePaths :
             Occurrences(p) = Cardinality({pr \in file_to_hash : pr[1] = p})
        /\ \A i \in DOMAIN hash_to_files :
             \A j \in DOMAIN hash_to_files[i].paths :
                <<hash_to_files[i].paths[j], hash_to_files[i].h>> \in file_to_hash

\* C18: a path occurs at most once in the whole index, so no group holds a
\* file twice, and the first path of a sorted group is not among the paths
\* handed to os.remove
C18_PathOnceInIndex ==
    /\ \A p \in FilePaths : Occurrences(p) <= 1
    /\ \A i \in DOMAIN collisions :
         Handled(i) => GroupPaths(i)[1] \notin Range(removeCalls)

\* os.remove succeeded on a member of group i
RemovedFrom(i) ==
    \E k \in DOMAIN out : out[k].k = "Deleted" /\ out[k].ps[1] \in GroupSet(i)

\* C19: once delete_duplicates has removed a member of a group, the keeper
\* of that group is on disk with the content the scan read, whatever other
\* processes did to the tree between the scan and the delete phase
C19_KeeperSurvives ==
    \A i \in DOMAIN collisions :
        (Handled(i) /\ RemovedFrom(i)) =>
            /\ disk0[GroupPaths(i)[1]] # Absent
            /\ disk[GroupPaths(i)[1]] = disk0[GroupPaths(i)[1]]

====
